---- MODULE Spec2Model ----
(***************************************************************************)
(* Run-lifecycle orchestrator of the sun2flops web client: the hook        *)
(* useSimulation (hooks/useSimulation.ts) together with the query cache    *)
(* it reads through useQuery / useMutation.                                *)
(*                                                                         *)
(* One action is one browser task: the event (a command of the hook, a     *)
(* timer tick, a network completion), the state updates of its handler,    *)
(* the re-render, the effects of lines 62-66, 76-80 and 91-95 and the      *)
(* fetches the re-evaluated `enabled` options start.  The state updates of *)
(* one handler are applied as one batch.                                   *)
(*                                                                         *)
(* The backend answers the k-th create-run call with run id k, so run ids  *)
(* are fresh; a value 0 stands for null.                                   *)
(***************************************************************************)
EXTENDS Integers, FiniteSets, Sequences, TLC

MaxRuns == 2

Handles == 1..MaxRuns

\* null run id, and the null TimeseriesData / SweepData
NoRun == 0
NoData == 0

\* origin of the stored status: nothing stored, or the literal of line 45
NoOrigin == 0
Synthetic == -1

\* the null error message
NoError == "<null>"

NullStatus == [status |-> "null", progress |-> 0, message |-> "", metrics |-> "absent"]

QueuedStatus == [status |-> "queued", progress |-> 0, message |-> "Run queued", metrics |-> "absent"]

\* RunStatus values the backend may report; metrics is optional in every status
PollResponses ==
  { [status |-> "queued", progress |-> 0, message |-> "Run queued", metrics |-> "absent"],
    [status |-> "running", progress |-> 50, message |-> "Simulating", metrics |-> "partial"],
    [status |-> "done", progress |-> 100, message |-> "Complete", metrics |-> "total_flops"],
    [status |-> "error", progress |-> 0, message |-> "invalid configuration", metrics |-> "absent"] }

\* outcomes of a failed create-run call: the HTTP status code of a response
\* that is not ok, 0 for a fetch that rejects
CreateFailures == {0, 500}

\* message of the Error that fetchJson throws
ErrorMessage(code) ==
  IF code = 0 THEN "Failed to fetch" ELSE "API error: 500 - Internal Server Error"

Modes == {"single", "sweep"}

\* the arguments (config, options) of runSingle / runSweep
Configs == {"configA", "configB"}

NoRequest == [mode |-> "none", config |-> "none"]

CreateRunRequestMut(mode, cfg) == [mode |-> "single", config |-> cfg]

\* lines 102-106 and 115-119: the RunRequest handed to mutateAsync
CreateRunRequest(mode, cfg) == [mode |-> mode, config |-> cfg]

VARIABLES
  runId,          \* useState, line 32
  status,         \* useState, line 33
  timeseries,     \* useState, line 34: 0, or h for the TimeseriesData of run h
  sweep,          \* useState, line 35: 0, or h for the SweepData of run h
  error,          \* useState, line 36
  submits,        \* number of runSingle / runSweep calls made
  pending,        \* create-run calls in flight: the RunRequest sent, NoRequest when not in flight
  promise,        \* promise returned by the k-th runSingle / runSweep call
  pollData,       \* query cache ['runStatus', h]: data
  pollInFlight,   \* query cache ['runStatus', h]: get-run-status calls in flight
  tsData,         \* query cache ['timeseries', h]: data
  tsFetching,     \* query cache ['timeseries', h]: a call is in flight
  sweepData,      \* query cache ['sweep', h]: data
  sweepFetching,  \* query cache ['sweep', h]: a call is in flight
  statusOrigin,   \* history: the run whose poll produced the stored status
  succeeded,      \* history: create-run calls that have succeeded
  resetAt,        \* history: value of submits at the last reset()
  ev,             \* history: the last event
  scenario,       \* history: progress through the single-mode success scenario
  rows,               \* SweepTab: data.data, the rows of the SweepData shown
  pvSizes,            \* SweepTab line 14
  battSizes,          \* SweepTab line 17
  utilizationMatrix,  \* SweepTab line 22
  flopsMatrix,        \* SweepTab line 23
  pivoted             \* SweepTab: the useMemo callback of line 12 has run

vars == << runId, status, timeseries, sweep, error, submits, pending, promise,
           pollData, pollInFlight, tsData, tsFetching, sweepData, sweepFetching,
           statusOrigin, succeeded, resetAt, ev, scenario >>

pivotVars == << rows, pvSizes, battSizes, utilizationMatrix, flopsMatrix, pivoted >>

hookVars == << runId, status, timeseries, sweep, error >>

historyVars == << succeeded, resetAt >>

\* msg is the message of the Error thrown, for a failed create-run call
Event(kind, run) == [kind |-> kind, run |-> run, msg |-> ""]

IsRunningMut(st) == st.status = "queued"

\* line 38
IsRunning(st) == st.status = "queued" \/ st.status = "running"

PollEnabledMut(rid, st) == rid # NoRun

\* line 57
PollEnabled(rid, st) == rid # NoRun /\ IsRunning(st)

ArtifactEnabledMut(rid, st) == rid # NoRun /\ st.status # "null"

\* lines 72 and 86
ArtifactEnabled(rid, st) == rid # NoRun /\ st.status = "done"

ObservedMut(rid, cache, none) ==
  IF rid = NoRun \/ \A h \in Handles : cache[h] = none
    THEN none
    ELSE cache[CHOOSE h \in Handles : cache[h] # none]

\* `data` of a useQuery whose key ends in runId (lines 54, 69, 83)
Observed(rid, cache, none) == IF rid = NoRun THEN none ELSE cache[rid]

\* SweepTab before its first render, with no rows
PivotIdle ==
  /\ rows = << >>
  /\ pvSizes = << >>
  /\ battSizes = << >>
  /\ utilizationMatrix = << >>
  /\ flopsMatrix = << >>
  /\ pivoted = FALSE

HookInit ==
  /\ runId = NoRun
  /\ status = NullStatus
  /\ timeseries = NoData
  /\ sweep = NoData
  /\ error = NoError
  /\ submits = 0
  /\ pending = [h \in Handles |-> NoRequest]
  /\ promise = [h \in Handles |-> "none"]
  /\ pollData = [h \in Handles |-> NullStatus]
  /\ pollInFlight = [h \in Handles |-> 0]
  /\ tsData = [h \in Handles |-> NoData]
  /\ tsFetching = [h \in Handles |-> FALSE]
  /\ sweepData = [h \in Handles |-> NoData]
  /\ sweepFetching = [h \in Handles |-> FALSE]
  /\ statusOrigin = NoOrigin
  /\ succeeded = {}
  /\ resetAt = 0
  /\ ev = Event("init", NoRun)
  /\ scenario = 0

Init == HookInit /\ PivotIdle

StatusEffectOnceMut(prev, cur, st) == st

StatusEffectMut(prev, cur, st) ==
  IF cur # prev /\ cur # NullStatus /\ st # NullStatus
    THEN [cur EXCEPT !.message = st.message]
    ELSE st

StatusEffectMergeMut(prev, cur, st) ==
  IF cur # prev /\ cur # NullStatus
    THEN IF cur.metrics = "absent" THEN [cur EXCEPT !.metrics = st.metrics] ELSE cur
    ELSE st

\* lines 62-66: runs when pollStatus changed since the last render
StatusEffect(prev, cur, st) == IF cur # prev /\ cur # NullStatus THEN cur ELSE st

\* lines 76-80 and 91-95: run when the query's data changed since the last render
ArtifactEffect(prev, cur, val) == IF cur # prev /\ cur # NoData THEN cur ELSE val

\* a query fetches when its observer turns enabled or moves to another key,
\* if the data under the key is stale and no call for the key is in flight
StartsFetch(rid, enabledNow, enabledBefore, stale, inFlight) ==
  /\ enabledNow
  /\ rid # runId \/ ~enabledBefore
  /\ stale
  /\ ~inFlight

Started(rid, start, fetching) ==
  IF start THEN [fetching EXCEPT ![rid] = TRUE] ELSE fetching

StartedCall(rid, start, calls) ==
  IF start THEN [calls EXCEPT ![rid] = @ + 1] ELSE calls

PollInFlightMut(rid, calls) == FALSE

\* a fetch of a query that is already fetching joins the call in flight
PollInFlight(rid, calls) == rid # NoRun /\ calls[rid] > 0

InFlight(rid, fetching) == rid # NoRun /\ fetching[rid]

ArtifactStaleMut(rid, cache) == rid # NoRun

\* lines 73 and 87: with staleTime Infinity only a query without data is stale
ArtifactStale(rid, cache) == rid # NoRun /\ cache[rid] = NoData

\* The re-render that ends every task: rid, st, org, ts, sw, err are the hook's
\* state after the handler, pD .. sF the query cache after the handler.
Render(rid, st, org, ts, sw, err, pD, pF, tD, tF, sD, sF) ==
  LET prevPoll == Observed(runId, pollData, NullStatus)
      curPoll == Observed(rid, pD, NullStatus)
      st2 == StatusEffect(prevPoll, curPoll, st)
      org2 == IF st2 = st THEN org ELSE rid
      ts2 == ArtifactEffect(Observed(runId, tsData, NoData), Observed(rid, tD, NoData), ts)
      sw2 == ArtifactEffect(Observed(runId, sweepData, NoData), Observed(rid, sD, NoData), sw)
      pollStart == StartsFetch(rid, PollEnabled(rid, st2), PollEnabled(runId, status), TRUE,
                               PollInFlight(rid, pF))
      tsStart == StartsFetch(rid, ArtifactEnabled(rid, st2), ArtifactEnabled(runId, status),
                             ArtifactStale(rid, tD), InFlight(rid, tF))
      swStart == StartsFetch(rid, ArtifactEnabled(rid, st2), ArtifactEnabled(runId, status),
                             ArtifactStale(rid, sD), InFlight(rid, sF))
  IN /\ runId' = rid
     /\ status' = st2
     /\ statusOrigin' = org2
     /\ timeseries' = ts2
     /\ sweep' = sw2
     /\ error' = err
     /\ pollData' = pD
     /\ pollInFlight' = StartedCall(rid, pollStart, pF)
     /\ tsData' = tD
     /\ tsFetching' = Started(rid, tsStart, tF)
     /\ sweepData' = sD
     /\ sweepFetching' = Started(rid, swStart, sF)

SubmitMut(mode, cfg) ==
  /\ submits < MaxRuns
  /\ submits' = submits + 1
  /\ pending' = [pending EXCEPT ![submits + 1] = CreateRunRequest(mode, cfg)]
  /\ promise' = [promise EXCEPT ![submits + 1] = "pending"]
  /\ Render(runId, status, statusOrigin, NoData, NoData, NoError,
            pollData, pollInFlight, tsData, tsFetching, sweepData, sweepFetching)
  /\ UNCHANGED historyVars
  /\ ev' = Event("submit", submits + 1)

\* lines 98-122: runSingle (mode "single") and runSweep (mode "sweep")
Submit(mode, cfg) ==
  /\ submits < MaxRuns
  /\ submits' = submits + 1
  /\ pending' = [pending EXCEPT ![submits + 1] = CreateRunRequest(mode, cfg)]
  /\ promise' = [promise EXCEPT ![submits + 1] = "pending"]
  /\ Render(runId, status, statusOrigin, NoData, NoData, error,
            pollData, pollInFlight, tsData, tsFetching, sweepData, sweepFetching)
  /\ UNCHANGED historyVars
  /\ ev' = Event("submit", submits + 1)

RunSingle == \E cfg \in Configs : Submit("single", cfg)

RunSweep == \E cfg \in Configs : Submit("sweep", cfg)

CreateRunSuccessMut(k) ==
  /\ pending[k] # NoRequest
  /\ pending' = [pending EXCEPT ![k] = NoRequest]
  /\ promise' = [promise EXCEPT ![k] = "fulfilled"]
  /\ succeeded' = succeeded \cup {k}
  /\ Render(k, status, statusOrigin, timeseries, sweep, error,
            pollData, pollInFlight, tsData, tsFetching, sweepData, sweepFetching)
  /\ UNCHANGED << submits, resetAt >>
  /\ ev' = Event("createRunSuccess", k)

\* lines 43-47: createRunMutation.onSuccess, for the k-th call, whose response
\* carries run id k
CreateRunSuccess(k) ==
  /\ pending[k] # NoRequest
  /\ pending' = [pending EXCEPT ![k] = NoRequest]
  /\ promise' = [promise EXCEPT ![k] = "fulfilled"]
  /\ succeeded' = succeeded \cup {k}
  /\ Render(k, QueuedStatus, Synthetic, timeseries, sweep, NoError,
            pollData, pollInFlight, tsData, tsFetching, sweepData, sweepFetching)
  /\ UNCHANGED << submits, resetAt >>
  /\ ev' = Event("createRunSuccess", k)

OnErrorMut(msg) == "Run failed"

\* line 49: setError(err.message)
OnError(msg) == msg

CreateRunFailureMut(k, code) ==
  /\ pending[k] # NoRequest
  /\ pending' = [pending EXCEPT ![k] = NoRequest]
  /\ promise' = [promise EXCEPT ![k] = "rejected"]
  /\ Render(runId, NullStatus, NoOrigin, timeseries, sweep, OnError(ErrorMessage(code)),
            pollData, pollInFlight, tsData, tsFetching, sweepData, sweepFetching)
  /\ UNCHANGED << submits, historyVars >>
  /\ ev' = [Event("createRunFailure", k) EXCEPT !.msg = ErrorMessage(code)]

\* lines 48-50: createRunMutation.onError, for the k-th call; mutateAsync
\* (lines 102, 115) then rejects, and with it the promise of runSingle / runSweep
CreateRunFailure(k, code) ==
  /\ pending[k] # NoRequest
  /\ pending' = [pending EXCEPT ![k] = NoRequest]
  /\ promise' = [promise EXCEPT ![k] = "rejected"]
  /\ Render(runId, status, statusOrigin, timeseries, sweep, OnError(ErrorMessage(code)),
            pollData, pollInFlight, tsData, tsFetching, sweepData, sweepFetching)
  /\ UNCHANGED << submits, historyVars >>
  /\ ev' = [Event("createRunFailure", k) EXCEPT !.msg = ErrorMessage(code)]

ResetMut ==
  /\ Render(NoRun, NullStatus, NoOrigin, NoData, NoData, error,
            pollData, pollInFlight, tsData, tsFetching, sweepData, sweepFetching)
  /\ resetAt' = submits
  /\ UNCHANGED << submits, pending, promise, succeeded >>
  /\ ev' = Event("reset", NoRun)

\* lines 124-130
Reset ==
  /\ Render(NoRun, NullStatus, NoOrigin, NoData, NoData, NoError,
            pollData, pollInFlight, tsData, tsFetching, sweepData, sweepFetching)
  /\ resetAt' = submits
  /\ UNCHANGED << submits, pending, promise, succeeded >>
  /\ ev' = Event("reset", NoRun)

\* line 58: the refetchInterval timer fires; a tick during a call in flight starts nothing
PollTick ==
  /\ PollEnabled(runId, status)
  /\ ~PollInFlight(runId, pollInFlight)
  /\ pollInFlight' = [pollInFlight EXCEPT ![runId] = @ + 1]
  /\ UNCHANGED << hookVars, submits, pending, promise, pollData, tsData, tsFetching,
                  sweepData, sweepFetching, statusOrigin, historyVars >>
  /\ ev' = Event("pollTick", runId)

\* line 56: api.getRunStatus(h) resolves with r
PollResponse(h, r) ==
  /\ pollInFlight[h] > 0
  /\ Render(runId, status, statusOrigin, timeseries, sweep, error,
            [pollData EXCEPT ![h] = r], [pollInFlight EXCEPT ![h] = @ - 1],
            tsData, tsFetching, sweepData, sweepFetching)
  /\ UNCHANGED << submits, pending, promise, historyVars >>
  /\ ev' = Event("pollResponse", h)

PollRejectedErrorMut(err) == "Failed to fetch"

\* lines 54-59: the hook reads only `data` of the poll query, so a rejection
\* leaves the error field as it is
PollRejectedError(err) == err

\* line 56: api.getRunStatus(h) rejects; the cached data stays
PollFailure(h) ==
  /\ pollInFlight[h] > 0
  /\ Render(runId, status, statusOrigin, timeseries, sweep, PollRejectedError(error),
            pollData, [pollInFlight EXCEPT ![h] = @ - 1],
            tsData, tsFetching, sweepData, sweepFetching)
  /\ UNCHANGED << submits, pending, promise, historyVars >>
  /\ ev' = Event("pollFailure", h)

\* line 71: api.getTimeseries(h) resolves
TimeseriesResponse(h) ==
  /\ tsFetching[h]
  /\ Render(runId, status, statusOrigin, timeseries, sweep, error,
            pollData, pollInFlight,
            [tsData EXCEPT ![h] = h], [tsFetching EXCEPT ![h] = FALSE],
            sweepData, sweepFetching)
  /\ UNCHANGED << submits, pending, promise, historyVars >>
  /\ ev' = Event("timeseriesResponse", h)

\* line 71: api.getTimeseries(h) rejects
TimeseriesFailure(h) ==
  /\ tsFetching[h]
  /\ Render(runId, status, statusOrigin, timeseries, sweep, error,
            pollData, pollInFlight,
            tsData, [tsFetching EXCEPT ![h] = FALSE],
            sweepData, sweepFetching)
  /\ UNCHANGED << submits, pending, promise, historyVars >>
  /\ ev' = Event("timeseriesFailure", h)

\* line 85: api.getSweep(h) resolves
SweepResponse(h) ==
  /\ sweepFetching[h]
  /\ Render(runId, status, statusOrigin, timeseries, sweep, error,
            pollData, pollInFlight, tsData, tsFetching,
            [sweepData EXCEPT ![h] = h], [sweepFetching EXCEPT ![h] = FALSE])
  /\ UNCHANGED << submits, pending, promise, historyVars >>
  /\ ev' = Event("sweepResponse", h)

SweepRejectedErrorMut(kind, err) == "API error: 404 - Not Found"

\* lines 83-89: the hook reads only `data` of the sweep query, so a rejection
\* of either kind leaves the error field as it is
SweepRejectedError(kind, err) == err

SweepRetryMut == TRUE

\* line 88, retry: false: a rejected get-sweep call is not repeated
SweepRetry == FALSE

\* line 85: api.getSweep(h) rejects; kind is "sweepNotFound" for a 404 response
\* and "sweepFailure" for every other failure; line 88: no retry
SweepRejected(h, kind) ==
  /\ sweepFetching[h]
  /\ Render(runId, status, statusOrigin, timeseries, sweep, SweepRejectedError(kind, error),
            pollData, pollInFlight, tsData, tsFetching,
            sweepData, [sweepFetching EXCEPT ![h] = SweepRetry])
  /\ UNCHANGED << submits, pending, promise, historyVars >>
  /\ ev' = Event(kind, h)

SweepNotFound(h) == SweepRejected(h, "sweepNotFound")

SweepFailure(h) == SweepRejected(h, "sweepFailure")

\* the window regains focus: every enabled query whose data is stale refetches
WindowFocus ==
  LET pollStart == PollEnabled(runId, status) /\ ~PollInFlight(runId, pollInFlight)
      tsStart == ArtifactEnabled(runId, status) /\ ArtifactStale(runId, tsData)
                   /\ ~InFlight(runId, tsFetching)
      swStart == ArtifactEnabled(runId, status) /\ ArtifactStale(runId, sweepData)
                   /\ ~InFlight(runId, sweepFetching)
  IN /\ pollStart \/ tsStart \/ swStart
     /\ pollInFlight' = StartedCall(runId, pollStart, pollInFlight)
     /\ tsFetching' = Started(runId, tsStart, tsFetching)
     /\ sweepFetching' = Started(runId, swStart, sweepFetching)
     /\ UNCHANGED << hookVars, submits, pending, promise, pollData, tsData, sweepData,
                     statusOrigin, historyVars >>
     /\ ev' = Event("windowFocus", runId)

\* Stages of the scenario "submit a single-mode run, create-run succeeds, the
\* polls return queued, running, done, get-sweep answers 404": 1 submitted,
\* 2 created, 3 queued seen, 4 running seen, 5 done seen, 6 sweep not found;
\* 0 when the last events are not a prefix of the scenario.  Timer ticks and
\* the timeseries response of the run belong to the scenario.
ScenarioStep ==
  LET k == ev'.run
      polled(s) ==
        ev'.kind = "pollResponse" /\ k = runId /\ pollData'[k].status = s
  IN CASE ev'.kind = "submit" /\ pending'[k].mode = "single" -> 1
       [] scenario = 1 /\ ev'.kind = "createRunSuccess" /\ k = submits -> 2
       [] scenario = 2 /\ polled("queued") -> 3
       [] scenario = 3 /\ polled("running") -> 4
       [] scenario = 4 /\ polled("done") -> 5
       [] scenario = 5 /\ ev'.kind = "sweepNotFound" /\ k = runId -> 6
       [] scenario \in 2..4 /\ ev'.kind = "pollTick" -> scenario
       [] scenario \in 5..6 /\ ev'.kind = "timeseriesResponse" /\ k = runId -> scenario
       [] OTHER -> 0

Next ==
  /\ \/ RunSingle
     \/ RunSweep
     \/ \E k \in Handles : CreateRunSuccess(k)
     \/ \E k \in Handles, code \in CreateFailures : CreateRunFailure(k, code)
     \/ Reset
     \/ PollTick
     \/ \E h \in Handles, r \in PollResponses : PollResponse(h, r)
     \/ \E h \in Handles : PollFailure(h)
     \/ \E h \in Handles : TimeseriesResponse(h)
     \/ \E h \in Handles : TimeseriesFailure(h)
     \/ \E h \in Handles : SweepResponse(h)
     \/ \E h \in Handles : SweepNotFound(h)
     \/ \E h \in Handles : SweepFailure(h)
     \/ WindowFocus
  /\ scenario' = ScenarioStep
  /\ UNCHANGED pivotVars

Spec == Init /\ [][Next]_vars

ButtonDisabledMut(st) == FALSE

\* ConfigForm.tsx lines 406 and 413, disabled={isRunning}, with the isRunning
\* of the hook that AppContent passes on
ButtonDisabled(st) == IsRunning(st)

\* ConfigForm.tsx lines 403-409: a click on Run Single calls handleRunSingle of
\* AppContent, which calls runSingle; a disabled button takes no click
ClickRunSingle == ~ButtonDisabled(status) /\ RunSingle

\* ConfigForm.tsx lines 410-416
ClickRunSweep == ~ButtonDisabled(status) /\ RunSweep

\* The hook as AppContent drives it: runSingle and runSweep are called from
\* the two buttons only, and reset is not used.
NextUI ==
  /\ \/ ClickRunSingle
     \/ ClickRunSweep
     \/ \E k \in Handles : CreateRunSuccess(k)
     \/ \E k \in Handles, code \in CreateFailures : CreateRunFailure(k, code)
     \/ PollTick
     \/ \E h \in Handles, r \in PollResponses : PollResponse(h, r)
     \/ \E h \in Handles : PollFailure(h)
     \/ \E h \in Handles : TimeseriesResponse(h)
     \/ \E h \in Handles : TimeseriesFailure(h)
     \/ \E h \in Handles : SweepResponse(h)
     \/ \E h \in Handles : SweepNotFound(h)
     \/ \E h \in Handles : SweepFailure(h)
     \/ WindowFocus
  /\ scenario' = ScenarioStep
  /\ UNCHANGED pivotVars

SpecUI == Init /\ [][NextUI]_vars

\* Results.tsx line 23, `if (error)`: null and the empty string are falsy
Truthy(err) == err # NoError /\ err # ""

ResultsMut(st, ts, sw, rid, err) ==
  IF st = NullStatus
    THEN [view |-> "empty", text |-> ""]
    ELSE IF st.status = "queued" \/ st.status = "running"
      THEN [view |-> "progress", text |-> st.message]
      ELSE IF Truthy(err)
        THEN [view |-> "error", text |-> err]
        ELSE IF st.status = "error"
          THEN [view |-> "simulationError", text |-> st.message]
          ELSE [view |-> "tabs", text |-> ""]

\* Results.tsx lines 20-64: the view rendered for the props, and the text shown
Results(st, ts, sw, rid, err) ==
  IF Truthy(err)
    THEN [view |-> "error", text |-> err]
    ELSE IF st = NullStatus
      THEN [view |-> "empty", text |-> ""]
      ELSE IF st.status = "queued" \/ st.status = "running"
        THEN [view |-> "progress", text |-> st.message]
        ELSE IF st.status = "error"
          THEN [view |-> "simulationError", text |-> st.message]
          ELSE [view |-> "tabs", text |-> ""]

\* the statuses after which the backend reports nothing new
TerminalResponses == { r \in PollResponses : r.status \in {"done", "error"} }

\* line 58: the interval timer of the poll query fires
TickStep == PollTick /\ scenario' = ScenarioStep /\ UNCHANGED pivotVars

\* the get-run-status call of the current run succeeds with a terminal status
TerminalStep ==
  /\ runId \in Handles
  /\ \E r \in TerminalResponses : PollResponse(runId, r)
  /\ scenario' = ScenarioStep
  /\ UNCHANGED pivotVars

MaxLiveRuns == 1

\* the steps of Next, with at most MaxLiveRuns calls of runSingle / runSweep
NextLive == Next /\ submits' <= MaxLiveRuns

\* The timer keeps firing while the poll query is enabled, and of the calls
\* made for the current run one eventually succeeds with a terminal status.
SpecLive == Init /\ [][NextLive]_vars /\ WF_vars(TickStep) /\ SF_vars(TerminalStep)

TypeOK ==
  /\ runId \in {NoRun} \cup Handles
  /\ status \in PollResponses \cup {NullStatus, QueuedStatus}
  /\ timeseries \in {NoData} \cup Handles
  /\ sweep \in {NoData} \cup Handles
  /\ submits \in 0..MaxRuns
  /\ \A h \in Handles : pending[h] # NoRequest => h <= submits

(***************************************************************************)
(* Sweep pivot: the useMemo callback of SweepTab (components/SweepTab.tsx)  *)
(***************************************************************************)

MaxRows == 4

\* a metric field that the row does not have
Absent == -1

PvValues == {1, 2}

BattValues == {2, 4}

\* the metric fields of a row, << utilization, total_flops >>; a row of the
\* first kind has no utilization field
MetricValues == { << Absent, 10 >>, << 1, 20 >>, << 2, 30 >> }

RowValues ==
  { [pv_kw |-> x, batt_kwh |-> y, utilization |-> m[1], total_flops |-> m[2]] :
      x \in PvValues, y \in BattValues, m \in MetricValues }

RowSeqs == UNION { [1..n -> RowValues] : n \in 0..MaxRows }

\* data.data.map((r) => r.pv_kw), lines 14 and 17
PvColumn(rs) == [k \in 1..Len(rs) |-> rs[k].pv_kw]

BattColumn(rs) == [k \in 1..Len(rs) |-> rs[k].batt_kwh]

Range(seq) == { seq[k] : k \in 1..Len(seq) }

RECURSIVE Unique(_)
\* [...new Set(seq)]: the distinct values, in order of first occurrence
Unique(seq) ==
  IF seq = << >>
    THEN << >>
    ELSE LET front == Unique(SubSeq(seq, 1, Len(seq) - 1))
             last == seq[Len(seq)]
         IN IF last \in Range(front) THEN front ELSE Append(front, last)

\* seq with v inserted before the first element greater than v
Insert(seq, v) ==
  LET before == { k \in 1..Len(seq) : seq[k] <= v }
      n == Cardinality(before)
  IN SubSeq(seq, 1, n) \o << v >> \o SubSeq(seq, n + 1, Len(seq))

RECURSIVE InsertionSort(_)
\* the ascending permutation of seq
InsertionSort(seq) ==
  IF seq = << >>
    THEN << >>
    ELSE Insert(InsertionSort(SubSeq(seq, 1, Len(seq) - 1)), seq[Len(seq)])

SortAscendingMut(seq) == seq

\* .sort((a, b) => a - b), lines 14-19
SortAscending(seq) == InsertionSort(seq)

RECURSIVE FindFrom(_, _, _, _)
\* data.data.find(...), lines 30-32: index of the first row at or after k with
\* the pair (pv, batt), 0 for undefined
FindFrom(rs, k, pv, batt) ==
  IF k > Len(rs)
    THEN 0
    ELSE IF rs[k].pv_kw = pv /\ rs[k].batt_kwh = batt
           THEN k
           ELSE FindFrom(rs, k + 1, pv, batt)

FindMut(rs, pv, batt) ==
  LET hits == { k \in 1..Len(rs) : rs[k].pv_kw = pv /\ rs[k].batt_kwh = batt }
  IN IF hits = {} THEN 0 ELSE CHOOSE k \in hits : \A l \in hits : l <= k

\* data.data.find(...), lines 30-32
Find(rs, pv, batt) == FindFrom(rs, 1, pv, batt)

\* `|| 0`, lines 33 and 34
OrZero(v) == IF v = Absent \/ v = 0 THEN 0 ELSE v

\* line 33
UtilizationCell(rs, pv, batt) ==
  LET k == Find(rs, pv, batt)
  IN IF k # 0 THEN OrZero(rs[k].utilization) * 100 ELSE 0

FlopsCellMut(rs, pv, batt) ==
  LET k == Find(rs, batt, pv)
  IN IF k # 0 THEN OrZero(rs[k].total_flops) ELSE 0

\* line 34
FlopsCell(rs, pv, batt) ==
  LET k == Find(rs, pv, batt)
  IN IF k # 0 THEN OrZero(rs[k].total_flops) ELSE 0

PvSizesMut(rs) == SortAscending(PvColumn(rs))

\* line 14
PvSizes(rs) == SortAscending(Unique(PvColumn(rs)))

BattSizesMut(rs) == Unique(BattColumn(rs))

\* line 17
BattSizes(rs) == SortAscending(Unique(BattColumn(rs)))

UtilizationMatrixMut(rs) ==
  IF rs = << >>
    THEN << << >> >>
    ELSE [i \in 1..Len(BattSizes(rs)) |->
            [j \in 1..Len(PvSizes(rs)) |->
               UtilizationCell(rs, PvSizes(rs)[j], BattSizes(rs)[i])]]

\* lines 22, 25-38: one matrix row per battery size, one cell per PV size
UtilizationMatrix(rs) ==
  [i \in 1..Len(BattSizes(rs)) |->
     [j \in 1..Len(PvSizes(rs)) |->
        UtilizationCell(rs, PvSizes(rs)[j], BattSizes(rs)[i])]]

\* lines 23, 25-38
FlopsMatrix(rs) ==
  [i \in 1..Len(BattSizes(rs)) |->
     [j \in 1..Len(PvSizes(rs)) |->
        FlopsCell(rs, PvSizes(rs)[j], BattSizes(rs)[i])]]

\* lines 12-39: the first render of SweepTab computes the axes and the matrices
ComputePivot ==
  /\ ~pivoted
  /\ pivoted' = TRUE
  /\ rows' = rows
  /\ pvSizes' = PvSizes(rows)
  /\ battSizes' = BattSizes(rows)
  /\ utilizationMatrix' = UtilizationMatrix(rows)
  /\ flopsMatrix' = FlopsMatrix(rows)

InitPivot ==
  /\ HookInit
  /\ rows \in RowSeqs
  /\ pvSizes = << >>
  /\ battSizes = << >>
  /\ utilizationMatrix = << >>
  /\ flopsMatrix = << >>
  /\ pivoted = FALSE

NextPivot == ComputePivot /\ UNCHANGED vars

SpecPivot == InitPivot /\ [][NextPivot]_pivotVars

(***************************************************************************)
(* Claims                                                                  *)
(***************************************************************************)

\* C1: stale artifacts never survive into a new run: in every reachable state a
\* non-null timeseries or sweep was fetched for the currently stored runId.
C1_NoStaleArtifact ==
  /\ timeseries # NoData => timeseries = runId
  /\ sweep # NoData => sweep = runId

\* C2: the stored status is null, the synthetic 'queued' set at create-run
\* success, or a poll response whose originating run is the current runId; a
\* poll response for a run that is no longer current never changes the status.
C2_StatusFromCurrentRun ==
  /\ [](statusOrigin = NoOrigin => status = NullStatus)
  /\ [](statusOrigin = Synthetic => status = QueuedStatus)
  /\ [](statusOrigin \in Handles => statusOrigin = runId /\ status = pollData[runId])
  /\ [][ev'.kind = "pollResponse" /\ ev'.run # runId
          => status' = status /\ statusOrigin' = statusOrigin]_vars

\* C2 witness: a poll response for run 1 has arrived after run 2 became current
C2_Witness ==
  /\ ev = Event("pollResponse", 1)
  /\ runId = 2
  /\ pollData[1].status = "done"
  /\ status.status = "running"

\* the orchestrator is idle: every field of the hook's state is null
Idle ==
  /\ runId = NoRun
  /\ status = NullStatus
  /\ timeseries = NoData
  /\ sweep = NoData
  /\ error = NoError

CompletionKinds ==
  { "createRunSuccess", "createRunFailure", "pollResponse", "pollFailure",
    "timeseriesResponse", "timeseriesFailure",
    "sweepResponse", "sweepNotFound", "sweepFailure" }

\* C3: a create-run, poll or artifact fetch that was outstanding when reset() was
\* called changes nothing when it completes: runId, status, timeseries, sweep
\* and error all remain null.
C3_ResetSupersedes ==
  [][(Idle /\ ev'.kind \in CompletionKinds /\ ev'.run <= resetAt) => Idle']_vars

MaxOf(S) == CHOOSE x \in S : \A y \in S : y <= x

\* C4: of the create-run calls made since the last reset, the one submitted
\* last wins: after each of their successes the stored runId is the run id
\* returned for the latest submit that has succeeded, whatever the completion order.
C4_LaterSubmitWins ==
  [][(ev'.kind = "createRunSuccess" /\ ev'.run > resetAt)
       => runId' = MaxOf({h \in succeeded' : h > resetAt})]_vars

\* C5: a get-timeseries or get-sweep call for run h is issued only in a state
\* where runId = h and the stored status is 'done'.
C5_ArtifactFetchGated ==
  [][\A h \in Handles :
       ((~tsFetching[h] /\ tsFetching'[h]) \/ (~sweepFetching[h] /\ sweepFetching'[h]))
         => (runId' = h /\ status'.status = "done")]_vars

\* C5 witness: the poll of the current run has just reported done and both
\* artifact fetches for it are in flight
C5_Witness ==
  /\ ev.kind = "pollResponse"
  /\ runId \in Handles
  /\ ev.run = runId
  /\ tsFetching[runId]
  /\ sweepFetching[runId]

\* C6: a get-run-status call for run h starts only in a state where runId = h
\* and the stored status is queued or running, and whenever a handle exists,
\* the status is queued or running and no poll is in flight, the next tick polls.
C6_PollGated ==
  /\ [][\A h \in Handles :
          (pollInFlight'[h] > pollInFlight[h])
            => (runId' = h /\ status'.status \in {"queued", "running"})]_vars
  /\ []((runId # NoRun /\ status.status \in {"queued", "running"} /\ pollInFlight[runId] = 0)
          => ENABLED PollTick)
  /\ []((runId = NoRun \/ status.status \in {"done", "error", "null"}) => ~ENABLED PollTick)

\* C6 witness: polling of the current run has ended with a terminal status
C6_Witness ==
  /\ runId \in Handles
  /\ statusOrigin = runId
  /\ status.status \in {"done", "error"}
  /\ pollInFlight[runId] = 0
  /\ ev.kind = "windowFocus"

\* C7: isRunning is true from create-run success through every queued/running
\* poll response, turns false when the done response is applied, and turns
\* true again only by a create-run success.
C7_IsRunningUntilDone ==
  [][/\ ev'.kind = "createRunSuccess" => IsRunning(status')
     /\ (ev'.kind = "pollResponse" /\ ev'.run = runId)
          => /\ pollData'[runId].status \in {"queued", "running"} => IsRunning(status')
             /\ pollData'[runId].status = "done" => ~IsRunning(status')
     /\ (IsRunning(status) /\ ~IsRunning(status'))
          => \/ ev'.kind = "reset"
             \/ /\ ev'.kind = "pollResponse"
                /\ ev'.run = runId
                /\ pollData'[runId].status \in {"done", "error"}
     /\ (~IsRunning(status) /\ IsRunning(status')) => ev'.kind = "createRunSuccess"]_vars

\* C7 witness: the done response of the current run has just been applied
\* after a running response
C7_Witness ==
  /\ ev.kind = "pollResponse"
  /\ ev.run = runId
  /\ status.status = "done"
  /\ ~IsRunning(status)
  /\ pollInFlight[runId] = 0

PollErrorApplied ==
  /\ ev'.kind = "pollResponse"
  /\ ev'.run = runId
  /\ pollData'[runId].status = "error"

\* C8 as stated: when a poll returns status 'error' with message m, the error
\* field equals m.
C8_ErrorFieldIsMessage ==
  [][PollErrorApplied => error' = pollData'[runId].message]_vars

\* C8 as amended: when a poll of the current run returns status 'error' with
\* message m, the response becomes the stored status (status.message = m), the
\* error field keeps its value, isRunning is false, polling stops and no
\* artifact is fetched for that run.
C8_ErrorStatusStored ==
  /\ [][PollErrorApplied
          => /\ status' = pollData'[runId]
             /\ status'.message = pollData'[runId].message
             /\ error' = error
             /\ runId' = runId
             /\ ~IsRunning(status')]_vars
  /\ []((runId # NoRun /\ status.status = "error")
          => /\ ~ENABLED PollTick
             /\ pollInFlight[runId] = 0
             /\ ~tsFetching[runId] /\ tsData[runId] = NoData
             /\ ~sweepFetching[runId] /\ sweepData[runId] = NoData)

\* C8 witness: the error response has been applied
C8_Witness ==
  /\ ev.kind = "pollResponse"
  /\ ev.run = runId
  /\ status.status = "error"
  /\ status.message = "invalid configuration"
  /\ error = NoError

\* C9: a sweep fetch of the current run that fails for a reason other than
\* 'not found' sets the error field.
C9_SweepFailureSurfaced ==
  [][(ev'.kind = "sweepFailure" /\ ev'.run = runId) => error' # NoError]_vars

\* C10: when the sweep fetch for the current run returns 'not found', the
\* response changes nothing: a null sweep stays null, the error field keeps the
\* value it had, status remains done and the timeseries is unaffected.
C10_NotFoundChangesNothing ==
  [][(ev'.kind = "sweepNotFound" /\ ev'.run = runId)
       => /\ sweep' = sweep
          /\ sweep = NoData => sweep' = NoData
          /\ error' = error
          /\ status.status = "done" /\ status' = status
          /\ timeseries' = timeseries
          /\ runId' = runId]_vars

\* C10 witness: 'not found' has arrived for the current, done run whose
\* timeseries is already shown
C10_Witness ==
  /\ ev.kind = "sweepNotFound"
  /\ ev.run = runId
  /\ status.status = "done"
  /\ sweep = NoData
  /\ error = NoError
  /\ timeseries = runId

\* C11: when create-run fails, the message of the failure becomes the error
\* field and the attempt never reaches polling: runId and status are left as
\* they were, no poll starts, and the failed call's run is never stored or polled.
C11_CreateFailureStored ==
  /\ [][ev'.kind = "createRunFailure"
          => /\ error' = ev'.msg
             /\ runId' = runId
             /\ status' = status
             /\ pollInFlight' = pollInFlight]_vars
  /\ [](\A k \in Handles :
          promise[k] = "rejected"
            => /\ runId # k
               /\ statusOrigin # k
               /\ pollInFlight[k] = 0
               /\ pollData[k] = NullStatus)

\* C11 witness: a second submission has failed while the first run is polled
C11_Witness ==
  /\ ev.kind = "createRunFailure"
  /\ ev.msg = "API error: 500 - Internal Server Error"
  /\ error = ev.msg
  /\ runId \in Handles
  /\ runId # ev.run
  /\ status.status = "running"

\* C12: no failure crosses the boundary as a thrown error: the promise returned
\* by runSingle / runSweep never rejects.
C12_PromiseNeverRejects ==
  \A k \in Handles : promise[k] # "rejected"

\* C16: once the timeseries (sweep) of a run is cached, no further
\* get-timeseries (get-sweep) call is issued for it and the cached data stays;
\* the exposed value of the current run changes only by a submit or a reset.
C16_FetchOncePerRun ==
  [][/\ \A h \in Handles :
          /\ tsData[h] # NoData => (tsFetching'[h] = tsFetching[h] /\ tsData'[h] = tsData[h])
          /\ sweepData[h] # NoData
               => (sweepFetching'[h] = sweepFetching[h] /\ sweepData'[h] = sweepData[h])
     /\ (runId # NoRun /\ timeseries = runId /\ timeseries' # timeseries)
          => ev'.kind \in {"submit", "reset"}
     /\ (runId # NoRun /\ sweep = runId /\ sweep' # sweep)
          => ev'.kind \in {"submit", "reset"}]_vars

\* C16 witness: the window regained focus with the timeseries cached and shown;
\* only the sweep, which had failed, is fetched again
C16_Witness ==
  /\ ev.kind = "windowFocus"
  /\ runId \in Handles
  /\ timeseries = runId
  /\ tsData[runId] = runId
  /\ ~tsFetching[runId]
  /\ sweepFetching[runId]

\* C17 as stated: at most one get-run-status call is in flight at any time
\* for the orchestrator instance.
C17_OnePollInFlight ==
  /\ \A h \in Handles : pollInFlight[h] <= 1
  /\ \A g, h \in Handles : (pollInFlight[g] > 0 /\ pollInFlight[h] > 0) => g = h

\* C17 as amended: at most one get-run-status call is in flight per run; a
\* tick during a call in flight for the current run starts no second call.
C17_OnePollPerRun ==
  /\ [](\A h \in Handles : pollInFlight[h] <= 1)
  /\ []((runId # NoRun /\ pollInFlight[runId] > 0) => ~ENABLED PollTick)
  /\ [][\A h \in Handles : pollInFlight[h] > 0 => pollInFlight'[h] <= pollInFlight[h]]_vars

\* C17 witness: polls of a superseded run and of the current run are both in flight
C17_Witness ==
  /\ runId = 2
  /\ pollInFlight[1] = 1
  /\ pollInFlight[2] = 1
  /\ PollEnabled(runId, status)

\* C18: a poll that fails changes none of runId, status, timeseries, sweep and
\* error; for the current run isRunning stays true and polling stays enabled,
\* so the next tick polls again.
C18_PollFailureTransient ==
  /\ [][ev'.kind = "pollFailure"
          => /\ hookVars' = hookVars
             /\ ev'.run = runId => (IsRunning(status') /\ PollEnabled(runId', status'))]_vars
  /\ []((ev.kind = "pollFailure" /\ ev.run = runId) => ENABLED PollTick)

\* C18 witness: a poll of the current, running run has just failed
C18_Witness ==
  /\ ev.kind = "pollFailure"
  /\ ev.run = runId
  /\ status.status = "running"
  /\ error = NoError
  /\ pollInFlight[runId] = 0

\* C19: a poll response r of the current run replaces the stored status by r
\* in every field; in particular metrics is absent when r has none.
C19_StatusReplacedWholesale ==
  [][(ev'.kind = "pollResponse" /\ ev'.run = runId)
       => /\ status' = pollData'[runId]
          /\ status'.status = pollData'[runId].status
          /\ status'.progress = pollData'[runId].progress
          /\ status'.message = pollData'[runId].message
          /\ status'.metrics = pollData'[runId].metrics]_vars

\* C19 witness: a response without metrics has been applied
C19_Witness ==
  /\ ev.kind = "pollResponse"
  /\ ev.run = runId
  /\ statusOrigin = runId
  /\ status.status = "queued"
  /\ status.metrics = "absent"

\* C20: reset() can be called in every state and leaves the orchestrator
\* idle: runId, status, timeseries, sweep and error are null, isRunning is false.
C20_ResetLeavesIdle ==
  /\ [][ev'.kind = "reset" => (Idle' /\ ~IsRunning(status'))]_vars
  /\ [](ENABLED Reset)

\* C20 witness: reset() was called with a create-run call outstanding and an
\* artifact of an earlier run in the cache
C20_Witness ==
  /\ ev.kind = "reset"
  /\ Idle
  /\ \E k \in Handles : pending[k] # NoRequest
  /\ \E h \in Handles : tsData[h] # NoData

(***************************************************************************)
(* Claims about the orchestrator, continued (checked under Spec)            *)
(***************************************************************************)

DoneStatus ==
  [status |-> "done", progress |-> 100, message |-> "Complete", metrics |-> "total_flops"]

\* C21: the single-mode success scenario ends in terminal success: after the
\* submit, the create-run success, the polls returning queued, running and done
\* and the get-sweep call answering 'not found', isRunning is false, the stored
\* status is the reported one with its metrics, the timeseries fetch has been
\* issued, sweep and error are null; the get-sweep call of the run is started
\* once in the scenario, when done is stored, and not again.
C21_SingleModeScenario ==
  /\ [](scenario = 6 =>
          /\ runId \in Handles
          /\ status = DoneStatus
          /\ status = pollData[runId]
          /\ ~IsRunning(status)
          /\ tsFetching[runId] \/ tsData[runId] = runId
          /\ ~sweepFetching[runId]
          /\ sweepData[runId] = NoData
          /\ sweep = NoData
          /\ error = NoError)
  /\ [](scenario \in 1..4 => \A h \in Handles : h >= submits => ~sweepFetching[h])
  /\ [](scenario = 5 => sweepFetching[runId])
  /\ [][\A h \in Handles :
          (scenario' # 0 /\ ~sweepFetching[h] /\ sweepFetching'[h])
            => (scenario = 4 /\ scenario' = 5 /\ h = runId')]_vars

\* C21 witness: the scenario has run to its end from the initial state, with
\* the timeseries call still in flight
C21_Witness ==
  /\ scenario = 6
  /\ submits = 1
  /\ resetAt = 0
  /\ runId = 1
  /\ status.metrics = "total_flops"
  /\ tsFetching[1]
  /\ ev = Event("sweepNotFound", 1)


\* C24: in the state right after a call of runSingle or runSweep, with the
\* create-run call in flight, timeseries and sweep are null whatever they held
\* before, and the request in flight carries mode 'single' for runSingle and
\* mode 'sweep' for runSweep, with the config and options given to the call.
C24_SubmitClearsAndSends ==
  [][\A cfg \in Configs :
       /\ Submit("single", cfg) =>
            /\ timeseries' = NoData /\ sweep' = NoData
            /\ pending'[submits'] = [mode |-> "single", config |-> cfg]
       /\ Submit("sweep", cfg) =>
            /\ timeseries' = NoData /\ sweep' = NoData
            /\ pending'[submits'] = [mode |-> "sweep", config |-> cfg]]_vars

\* C24 witness: runSweep has just been called while the finished run 1 was
\* showing its timeseries
C24_Witness ==
  /\ ev = Event("submit", 2)
  /\ pending[2].mode = "sweep"
  /\ runId = 1
  /\ status.status = "done"
  /\ tsData[1] = 1
  /\ timeseries = NoData
  /\ sweep = NoData

\* C25: create-run success installs the run in one step: runId becomes the
\* returned run id, status the synthetic queued status with progress 0 and
\* error null, and no artifact fetch is started for the new run; in every
\* reachable state a stored 'done' is the poll result of the current run.
C25_CreateSuccessAtomic ==
  /\ [][ev'.kind = "createRunSuccess" =>
          /\ runId' = ev'.run
          /\ status' = QueuedStatus
          /\ status'.progress = 0
          /\ error' = NoError
          /\ ~tsFetching'[runId']
          /\ ~sweepFetching'[runId']]_vars
  /\ [](status.status = "done" =>
          /\ runId \in Handles
          /\ statusOrigin = runId
          /\ pollData[runId].status = "done")

\* C25 witness: run 2 has just been installed while run 1's 'done' was stored
C25_Witness ==
  /\ ev = Event("createRunSuccess", 2)
  /\ resetAt = 0
  /\ pollData[1].status = "done"
  /\ runId = 2
  /\ status = QueuedStatus
  /\ ~tsFetching[2]

\* C26: a run that is current and running eventually has a stored status
\* done or error, unless it stops being the current run (reset, or another
\* create-run success); while it is running a get-run-status call is in flight
\* or the next timer tick is due; once its status is done or error, the status
\* stays and polling is not enabled for as long as the run is current.
C26_RunTerminates ==
  /\ \A h \in Handles :
       (runId = h /\ IsRunning(status))
         ~> (runId # h \/ status.status \in {"done", "error"})
  /\ [](IsRunning(status) =>
          /\ runId \in Handles
          /\ PollEnabled(runId, status)
          /\ pollInFlight[runId] > 0 \/ ENABLED TickStep)
  /\ [][(status.status \in {"done", "error"} /\ runId' = runId) =>
          /\ status' = status
          /\ ~IsRunning(status')
          /\ ~PollEnabled(runId', status')
          /\ pollInFlight'[runId] = 0]_vars

\* C26 witness: the current run has reached 'done' after polls that reported
\* 'queued' and 'running', and no call for it is left in flight
C26_Witness ==
  /\ ev.kind = "pollResponse"
  /\ ev.run = runId
  /\ status.status = "done"
  /\ ~IsRunning(status)
  /\ pollInFlight[runId] = 0
  /\ scenario = 5

\* what App renders in the results panel for the hook's state
Shown == Results(status, timeseries, sweep, runId, error)

\* C27: the result view is chosen by strict priority: with a non-null error
\* the error display, whatever the status and the artifacts; otherwise the
\* empty view for a null status, progress for queued and running, the status
\* message as a simulation error for status 'error', and the tabs for 'done'
\* only.
C27_ViewPriority ==
  /\ error # NoError => Shown = [view |-> "error", text |-> error]
  /\ error = NoError =>
       /\ status = NullStatus => Shown.view = "empty"
       /\ status.status \in {"queued", "running"} => Shown.view = "progress"
       /\ status.status = "error" =>
            Shown = [view |-> "simulationError", text |-> status.message]
       /\ status.status = "done" => Shown.view = "tabs"
  /\ Shown.view = "tabs" => status.status = "done"

\* C27 witness: a failed create-run call while the finished run 1 shows its
\* timeseries: the error display replaces the tabs
C27_Witness ==
  /\ error # NoError
  /\ runId = 1
  /\ status.status = "done"
  /\ timeseries = 1
  /\ Shown.view = "error"

\* C29: a failed create-run call changes the error field only: runId, status,
\* timeseries and sweep keep the values they had when the failure arrived, a
\* run that was being polled keeps being polled, and a stored 'done' stays
\* stored next to the new error.
C29_CreateFailureFrame ==
  [][ev'.kind = "createRunFailure" =>
       /\ runId' = runId
       /\ status' = status
       /\ timeseries' = timeseries
       /\ sweep' = sweep
       /\ error' = ev'.msg
       /\ PollEnabled(runId', status') = PollEnabled(runId, status)
       /\ pollInFlight' = pollInFlight]_vars

\* C29 witness: the second submission has failed while run 1 is running with a
\* get-run-status call in flight
C29_Witness ==
  /\ ev.kind = "createRunFailure"
  /\ ev.run = 2
  /\ runId = 1
  /\ status.status = "running"
  /\ pollInFlight[1] = 1
  /\ error # NoError

\* C30: only a create-run failure sets the error field and only a create-run
\* success or reset() clears it: runSingle / runSweep, poll responses and
\* failures, and the results of the artifact fetches leave it as it is.
C30_ErrorClearedOnlyBySuccessOrReset ==
  [][/\ error' # error => ev'.kind \in {"createRunFailure", "createRunSuccess", "reset"}
     /\ (error # NoError /\ error' = NoError) => ev'.kind \in {"createRunSuccess", "reset"}
     /\ (error' # NoError /\ error' # error) => ev'.kind = "createRunFailure"
     /\ ev'.kind = "submit" => error' = error]_vars

\* C30 witness: the first submission failed and its error is still stored
\* while the create-run call of the second submission is in flight
C30_Witness ==
  /\ ev = Event("submit", 2)
  /\ pending[2] # NoRequest
  /\ promise[1] = "rejected"
  /\ error # NoError

(***************************************************************************)
(* Claims about the sweep pivot, checked under SpecPivot                    *)
(***************************************************************************)

\* the strictly ascending sequence of the elements of S
Ascending(S) ==
  CHOOSE seq \in [1..Cardinality(S) -> S] :
    \A a, b \in 1..Cardinality(S) : a < b => seq[a] < seq[b]

PvPresent == { rows[k].pv_kw : k \in 1..Len(rows) }

BattPresent == { rows[k].batt_kwh : k \in 1..Len(rows) }

\* index of the first row, in input order, with the pair (x, y); 0 for none
FirstRowWith(x, y) ==
  LET hits == { k \in 1..Len(rows) : rows[k].pv_kw = x /\ rows[k].batt_kwh = y }
  IN IF hits = {} THEN 0 ELSE CHOOSE k \in hits : \A l \in hits : k <= l

MetricOrZero(v) == IF v = Absent THEN 0 ELSE v

\* C13: for every pair (x, y) of the ascending distinct axis values, cell
\* M[i][j] (i the index of y among the batt_kwh values, j the index of x among
\* the pv_kw values) is the metric of the first row in input order with that
\* pair, 0 when that row lacks the field and 0 when no row has the pair; the
\* utilization matrix holds that value as a percentage (times 100).  The pivot
\* of every row list is defined, duplicates of a pair included: both matrices
\* are sequences of sequences of numbers.
C13_FirstMatchCell ==
  /\ ~pivoted => /\ FlopsMatrix(rows) \in Seq(Seq(Nat))
                 /\ UtilizationMatrix(rows) \in Seq(Seq(Nat))
  /\ pivoted =>
       LET xs == Ascending(PvPresent)
           ys == Ascending(BattPresent)
       IN \A i \in 1..Len(ys), j \in 1..Len(xs) :
            LET k == FirstRowWith(xs[j], ys[i])
            IN /\ flopsMatrix[i][j] =
                    IF k = 0 THEN 0 ELSE MetricOrZero(rows[k].total_flops)
               /\ utilizationMatrix[i][j] =
                    IF k = 0 THEN 0 ELSE 100 * MetricOrZero(rows[k].utilization)

\* C13 witness: the rows (1,2,10), (2,2,20), (1,4,30) and a duplicate of the
\* pair (1,2) with another metric give [[10,20],[30,0]]; the first row has no
\* utilization field
C13_Witness ==
  /\ pivoted
  /\ Len(rows) = 4
  /\ << rows[1].pv_kw, rows[1].batt_kwh, rows[1].total_flops >> = << 1, 2, 10 >>
  /\ << rows[2].pv_kw, rows[2].batt_kwh, rows[2].total_flops >> = << 2, 2, 20 >>
  /\ << rows[3].pv_kw, rows[3].batt_kwh, rows[3].total_flops >> = << 1, 4, 30 >>
  /\ << rows[4].pv_kw, rows[4].batt_kwh, rows[4].total_flops >> = << 1, 2, 20 >>
  /\ rows[1].utilization = Absent
  /\ flopsMatrix = << << 10, 20 >>, << 30, 0 >> >>
  /\ utilizationMatrix = << << 0, 100 >>, << 200, 0 >> >>

StrictlyAscending(seq) ==
  \A a, b \in 1..Len(seq) : a < b => seq[a] < seq[b]

\* C14: the two axis sequences are strictly ascending and hold exactly the
\* pv_kw values and exactly the batt_kwh values present in the rows.
C14_AxesSortedDistinct ==
  pivoted =>
    /\ StrictlyAscending(pvSizes)
    /\ StrictlyAscending(battSizes)
    /\ Range(pvSizes) = PvPresent
    /\ Range(battSizes) = BattPresent

\* C14 witness: rows that arrive in descending order with repeated values
C14_Witness ==
  /\ pivoted
  /\ Len(rows) = 3
  /\ << rows[1].pv_kw, rows[2].pv_kw, rows[3].pv_kw >> = << 2, 1, 2 >>
  /\ << rows[1].batt_kwh, rows[2].batt_kwh, rows[3].batt_kwh >> = << 4, 4, 2 >>
  /\ pvSizes = << 1, 2 >>
  /\ battSizes = << 2, 4 >>

\* exactly one row per point of the full grid of the values present
DenseGrid ==
  /\ rows # << >>
  /\ { << rows[k].pv_kw, rows[k].batt_kwh >> : k \in 1..Len(rows) }
       = PvPresent \X BattPresent
  /\ Len(rows) = Cardinality(PvPresent) * Cardinality(BattPresent)

IndexIn(seq, v) == CHOOSE a \in 1..Len(seq) : seq[a] = v

\* C15: on a dense grid, the cell at (index of the row's batt_kwh, index of the
\* row's pv_kw) in the ascending axes is the row's own metric, for every row
\* and both metrics: total_flops as stored, utilization as stored before the
\* scaling to a percentage.
C15_DenseRoundTrip ==
  (pivoted /\ DenseGrid) =>
    \A k \in 1..Len(rows) :
      LET i == IndexIn(Ascending(BattPresent), rows[k].batt_kwh)
          j == IndexIn(Ascending(PvPresent), rows[k].pv_kw)
      IN /\ rows[k].total_flops # Absent
              => flopsMatrix[i][j] = rows[k].total_flops
         /\ rows[k].utilization # Absent
              => utilizationMatrix[i][j] = 100 * rows[k].utilization

\* C15 witness: a 2 x 2 grid given in an order that is neither row-major nor
\* ascending, with distinct metrics read back
C15_Witness ==
  /\ pivoted
  /\ DenseGrid
  /\ Len(rows) = 4
  /\ << rows[1].pv_kw, rows[1].batt_kwh >> = << 2, 4 >>
  /\ << rows[2].pv_kw, rows[2].batt_kwh >> = << 1, 2 >>
  /\ << rows[3].pv_kw, rows[3].batt_kwh >> = << 2, 2 >>
  /\ << rows[4].pv_kw, rows[4].batt_kwh >> = << 1, 4 >>
  /\ flopsMatrix = << << 10, 20 >>, << 30, 20 >> >>
  /\ utilizationMatrix[2][2] = 100

\* C22: each matrix has one row per distinct batt_kwh value and each of its
\* rows one cell per distinct pv_kw value, so both matrices are rectangular
\* and of the same shape.
C22_MatrixShape ==
  pivoted =>
    /\ Len(utilizationMatrix) = Cardinality(BattPresent)
    /\ Len(flopsMatrix) = Cardinality(BattPresent)
    /\ \A i \in 1..Cardinality(BattPresent) :
         /\ DOMAIN utilizationMatrix[i] = 1..Cardinality(PvPresent)
         /\ DOMAIN flopsMatrix[i] = 1..Cardinality(PvPresent)

\* C22 witness: one batt_kwh value, two pv_kw values, one of them repeated:
\* a 1 x 2 matrix
C22_Witness ==
  /\ pivoted
  /\ Len(rows) = 3
  /\ Cardinality(BattPresent) = 1
  /\ << rows[1].pv_kw, rows[2].pv_kw, rows[3].pv_kw >> = << 2, 1, 2 >>
  /\ Len(flopsMatrix) = 1
  /\ Len(flopsMatrix[1]) = 2
  /\ Len(utilizationMatrix[1]) = 2

\* C23: the pivot of the empty row list is defined: both axis sequences are
\* empty and both matrices have no rows.
C23_EmptyPivot ==
  /\ (~pivoted /\ rows = << >>) =>
       /\ PvSizes(rows) = << >>
       /\ BattSizes(rows) = << >>
       /\ UtilizationMatrix(rows) = << >>
       /\ FlopsMatrix(rows) = << >>
  /\ (pivoted /\ rows = << >>) =>
       /\ pvSizes = << >>
       /\ battSizes = << >>
       /\ utilizationMatrix = << >>
       /\ flopsMatrix = << >>

\* C23 witness: the empty row list has been pivoted
C23_Witness ==
  /\ pivoted
  /\ rows = << >>
  /\ Len(pvSizes) = 0
  /\ Len(flopsMatrix) = 0

\* no two rows share their (pv_kw, batt_kwh) pair
DistinctPairs ==
  \A a, b \in 1..Len(rows) :
    (rows[a].pv_kw = rows[b].pv_kw /\ rows[a].batt_kwh = rows[b].batt_kwh) => a = b

\* the rows in the order given by the permutation p of their indices
Permuted(p) == [k \in 1..Len(rows) |-> rows[p[k]]]

\* C28: for rows with pairwise distinct (pv_kw, batt_kwh) pairs the pivot does
\* not depend on the order of the rows: every permutation of the rows has the
\* axis sequences and the matrices computed for the rows as given.
C28_OrderIndependent ==
  (pivoted /\ DistinctPairs) =>
    \A p \in Permutations(1..Len(rows)) :
      /\ PvSizes(Permuted(p)) = pvSizes
      /\ BattSizes(Permuted(p)) = battSizes
      /\ UtilizationMatrix(Permuted(p)) = utilizationMatrix
      /\ FlopsMatrix(Permuted(p)) = flopsMatrix

\* C28 witness: three rows of a sparse grid, given in descending order of both
\* axes, with three different metric values
C28_Witness ==
  /\ pivoted
  /\ DistinctPairs
  /\ Len(rows) = 3
  /\ << rows[1].pv_kw, rows[1].batt_kwh >> = << 2, 4 >>
  /\ << rows[2].pv_kw, rows[2].batt_kwh >> = << 1, 4 >>
  /\ << rows[3].pv_kw, rows[3].batt_kwh >> = << 1, 2 >>
  /\ flopsMatrix = << << 30, 0 >>, << 20, 10 >> >>

(***************************************************************************)
(* Claims about the form buttons, checked under SpecUI                      *)
(***************************************************************************)

\* C31: the Run Single and Run Sweep buttons are disabled exactly when the
\* stored status is queued or running; a click therefore never submits while
\* the run is being polled, the buttons are still enabled right after a click,
\* with the create-run call in flight, and while they are enabled with a call
\* in flight a second submit can be made.
C31_ButtonsDisabledIffRunning ==
  /\ [](ButtonDisabled(status) <=> status.status \in {"queued", "running"})
  /\ [][ev'.kind = "submit" =>
          /\ ~IsRunning(status)
          /\ ~PollEnabled(runId, status)
          /\ ~ButtonDisabled(status')
          /\ pending'[ev'.run] # NoRequest]_vars
  /\ []((submits < MaxRuns /\ ~IsRunning(status)) =>
          ENABLED (ClickRunSingle /\ scenario' = ScenarioStep /\ UNCHANGED pivotVars))
  /\ [](IsRunning(status) =>
          ~ENABLED (ClickRunSingle /\ scenario' = ScenarioStep /\ UNCHANGED pivotVars))

\* C31 witness: a second click while the first create-run call is in flight
C31_Witness ==
  /\ ev = Event("submit", 2)
  /\ pending[1] # NoRequest
  /\ pending[2] # NoRequest
  /\ status = NullStatus
  /\ ~ButtonDisabled(status)

====
